---- MODULE Spec2Model ----
(***************************************************************************)
(* A model of the vista-vocale Streamlit scripts:                          *)
(*   src/vista_vocale_app.py  (router, photo lesson, voice chat)           *)
(*   src/parla_app.py         (stand-alone voice chat)                     *)
(*   src/visto_vocale_app.py  (stand-alone image lesson)                   *)
(* Strings are TLC strings; Python dicts are functions whose DOMAIN is the *)
(* set of keys present; a Python call that may raise yields an outcome     *)
(* record [exc, val].                                                      *)
(***************************************************************************)
EXTENDS Integers, Sequences, FiniteSets, TLC

VARIABLES
    \* --- model directory harness (get_prioritized_models as a function)
    dstage,        \* "input" | "done"
    listing_resp,  \* the provider's answer to GET /v1beta/models
    ranked,        \* outcome of get_prioritized_models(listing_resp)
    \* --- tolerant lookup harness (get_any as a function)
    gstage,        \* "input" | "done"
    g_d,           \* the record d
    g_keys,        \* the ordered candidate keys
    g_default,     \* the supplied default
    got,           \* what get_any returned
    \* --- speech synthesis harness (get_audio_bytes and the loops calling it)
    sstage,        \* "input" | "done"
    s_script,      \* the script whose get_audio_bytes is called
    s_text,        \* the text to speak
    s_lang,        \* the language code
    s_up,          \* whether the text-to-speech service can be reached
    s_items,       \* the vocabulary items the page renders
    spoken,        \* outcome of get_audio_bytes(s_text, s_lang)
    rendered,      \* what rendering s_items did
    \* --- the served script and its session
    app,           \* which script the server runs
    api_key,       \* the configured GEMINI_API_KEY, None when missing
    session,       \* st.session_state, a dict kept between runs
    pending_rerun, \* st.rerun() was called: the next run has no interaction
    \* --- what the latest script run did
    trigger,       \* the interaction that caused the run
    inputs,        \* the widget values of the run
    my_models,     \* the ranked list the run obtained
    provider,      \* how the generation endpoint answered during the run
    events,        \* remote calls and messages of the run, in order
    widgets,       \* the widgets the run drew
    ended,         \* "done" | "stop" | "rerun" | "crash", "running" meanwhile
    pc             \* where the running script stands, "idle" between runs

dirVars == <<dstage, listing_resp, ranked>>
getVars == <<gstage, g_d, g_keys, g_default, got>>
synVars == <<sstage, s_script, s_text, s_lang, s_up, s_items, spoken, rendered>>
runVars == <<trigger, inputs, my_models, provider, events, widgets, ended, pc>>
appVars == <<app, api_key, session, pending_rerun, runVars>>

(***************************************************************************)
(* Bounds of the model.                                                    *)
(***************************************************************************)
\* longest provider listing handed to get_prioritized_models
MaxListed == 3
\* longest candidate-key list handed to get_any
MaxKeys == 3
\* the chat history is not grown beyond this many turns
MaxChatLen == 4
\* the same for the stand-alone chat, parla_app.py: room for two replies
MaxParlaChatLen == 6
\* most vocabulary items rendered with audio in the synthesis harness
MaxItems == 2

(***************************************************************************)
(* Python values.                                                          *)
(***************************************************************************)
None == "None"
Raise == [exc |-> TRUE, val |-> None]
Return(v) == [exc |-> FALSE, val |-> v]

\* str.__contains__ : sub in s
Contains(sub, s) ==
    \E i \in 1..(Len(s) - Len(sub) + 1) : SubSeq(s, i, i + Len(sub) - 1) = sub

Uppers == "ABCDEFGHIJKLMNOPQRSTUVWXYZ"
Lowers == "abcdefghijklmnopqrstuvwxyz"

LowerChar(c) ==
    IF \E i \in 1..Len(Uppers) : SubSeq(Uppers, i, i) = c
    THEN LET i == CHOOSE j \in 1..Len(Uppers) : SubSeq(Uppers, j, j) = c
         IN  SubSeq(Lowers, i, i)
    ELSE c

\* str.lower()
RECURSIVE Lower(_)
Lower(s) ==
    IF Len(s) = 0 THEN ""
    ELSE LowerChar(SubSeq(s, 1, 1)) \o Lower(SubSeq(s, 2, Len(s)))

\* dict.get(key, dflt)
DictGet(m, key, dflt) == IF key \in DOMAIN m THEN m[key] ELSE dflt

(***************************************************************************)
(* Model directory: get_prioritized_models.                                *)
(***************************************************************************)
sort_key(name) ==
    IF Contains("gemini-3", name) THEN 0
    ELSE IF Contains("gemini-2.5-flash", name) /\ ~Contains("lite", name) THEN 1
    ELSE IF Contains("gemini-2.5", name) /\ ~Contains("lite", name) THEN 2
    ELSE 50

\* the exclusion test of the loop, with the lower() left out
IsExcludedName_cased(name) ==
    Contains("tts", name) \/ Contains("embedding", name)

IsExcludedName(name) ==
    Contains("tts", Lower(name)) \/ Contains("embedding", Lower(name))

\* the for loop over data.get('models', []); m['name'] raises KeyError
RECURSIVE FilterLoop(_, _, _)
FilterLoop(models, i, valid_models) ==
    IF i > Len(models) THEN Return(valid_models)
    ELSE LET m == models[i] IN
         IF "name" \notin DOMAIN m THEN Raise
         ELSE IF "generateContent" \notin DictGet(m, "supportedGenerationMethods", {})
              THEN FilterLoop(models, i + 1, valid_models)
         ELSE IF IsExcludedName(m["name"])
              THEN FilterLoop(models, i + 1, valid_models)
         ELSE FilterLoop(models, i + 1, Append(valid_models, m["name"]))

\* one insertion step that puts x before the elements of equal key
RECURSIVE InsertByKey_unstable(_, _)
InsertByKey_unstable(x, s) ==
    IF s = <<>> THEN <<x>>
    ELSE IF sort_key(x) <= sort_key(Head(s)) THEN <<x>> \o s
    ELSE <<Head(s)>> \o InsertByKey_unstable(x, Tail(s))

\* insert x into the sorted s after every element whose key is <= key(x)
RECURSIVE InsertByKey(_, _)
InsertByKey(x, s) ==
    IF s = <<>> THEN <<x>>
    ELSE IF sort_key(x) < sort_key(Head(s)) THEN <<x>> \o s
    ELSE <<Head(s)>> \o InsertByKey(x, Tail(s))

\* list.sort(key=sort_key): a stable sort
RECURSIVE SortByKey(_)
SortByKey(s) ==
    IF s = <<>> THEN <<>>
    ELSE InsertByKey(s[Len(s)], SortByKey(SubSeq(s, 1, Len(s) - 1)))

\* the body of the try block
get_prioritized_models_try(response) ==
    IF response.raises THEN Raise
    ELSE IF response.status_code # 200 THEN Return(<<>>)
    ELSE IF ~response.is_json THEN Raise
    ELSE LET valid == FilterLoop(DictGet(response.data, "models", <<>>), 1, <<>>)
         IN  IF valid.exc THEN Raise ELSE Return(SortByKey(valid.val))

\* the function with its "except: return []" left out
get_prioritized_models_noexcept(response) ==
    get_prioritized_models_try(response)

get_prioritized_models(response) ==
    LET r == get_prioritized_models_try(response)
    IN  IF r.exc THEN Return(<<>>) ELSE r

(***************************************************************************)
(* Provider listings the directory is exercised on.                        *)
(***************************************************************************)
GenMethods == {"generateContent", "countTokens"}

ListedEntries ==
    { [name |-> "models/gemini-3-pro-preview", supportedGenerationMethods |-> GenMethods],
      [name |-> "models/gemini-2.5-flash", supportedGenerationMethods |-> GenMethods],
      [name |-> "models/gemini-2.5-pro", supportedGenerationMethods |-> GenMethods],
      [name |-> "models/gemini-2.5-flash-lite", supportedGenerationMethods |-> GenMethods],
      [name |-> "gemini-x-lite", supportedGenerationMethods |-> GenMethods],
      [name |-> "gemini-x-flash", supportedGenerationMethods |-> GenMethods],
      [name |-> "models/gemini-2.5-flash-preview-TTS", supportedGenerationMethods |-> GenMethods],
      [name |-> "models/gemini-Embedding-exp", supportedGenerationMethods |-> GenMethods],
      [name |-> "models/aqa", supportedGenerationMethods |-> {"generateAnswer"}],
      [name |-> "models/imagen-4.0"],
      [supportedGenerationMethods |-> GenMethods] }

Listings == UNION { [1..n -> ListedEntries] : n \in 0..MaxListed }

HttpResponse(status, isJson, data) ==
    [raises |-> FALSE, status_code |-> status, is_json |-> isJson, data |-> data]
NetworkError ==
    [raises |-> TRUE, status_code |-> 0, is_json |-> FALSE, data |-> <<>>]

DirectoryResponses ==
    { NetworkError,
      HttpResponse(500, FALSE, <<>>),
      HttpResponse(403, TRUE, [error |-> "PERMISSION_DENIED"]),
      HttpResponse(200, FALSE, <<>>),
      HttpResponse(200, TRUE, [error |-> "no models key"]) }
    \cup { HttpResponse(200, TRUE, [models |-> l]) : l \in Listings }

DirInit ==
    /\ dstage = "input"
    /\ listing_resp \in DirectoryResponses
    /\ ranked = Return(<<>>)

DirIdle ==
    /\ dstage = "idle"
    /\ listing_resp = NetworkError
    /\ ranked = Return(<<>>)

\* the call my_models = get_prioritized_models()
ListRankedModels ==
    /\ dstage = "input"
    /\ ranked' = get_prioritized_models(listing_resp)
    /\ dstage' = "done"
    /\ UNCHANGED <<listing_resp, getVars, synVars, appVars>>

(***************************************************************************)
(* Response normalizer: get_any.                                           *)
(***************************************************************************)
\* Python truthiness of the values a parsed JSON record holds here
Truthy(v) == v \notin {"", None}

\* the loop with the k.lower() probe left out
RECURSIVE get_any_loop_exact(_, _, _, _)
get_any_loop_exact(d, keys, i, default) ==
    IF i > Len(keys) THEN default
    ELSE LET k == keys[i] IN
         IF k \in DOMAIN d /\ Truthy(d[k]) THEN d[k]
         ELSE get_any_loop_exact(d, keys, i + 1, default)

RECURSIVE get_any_loop(_, _, _, _)
get_any_loop(d, keys, i, default) ==
    IF i > Len(keys) THEN default
    ELSE LET k == keys[i] IN
         IF k \in DOMAIN d /\ Truthy(d[k]) THEN d[k]
         ELSE IF Lower(k) \in DOMAIN d /\ Truthy(d[Lower(k)]) THEN d[Lower(k)]
         ELSE get_any_loop(d, keys, i + 1, default)

get_any(d, keys, default) == get_any_loop(d, keys, 1, default)

\* records, candidate keys and defaults get_any is exercised on
RecordKeys == {"Word", "word", "term"}
RecordValues == {"", None, "il gatto", "la casa"}
Records == UNION { [K -> RecordValues] : K \in SUBSET RecordKeys }
CandidateKeys == {"Word", "word", "Term"}
KeyLists == UNION { [1..n -> CandidateKeys] : n \in 0..MaxKeys }
Defaults == {"", "Speaker"}

GetInit ==
    /\ gstage = "input"
    /\ g_d \in Records
    /\ g_keys \in KeyLists
    /\ g_default \in Defaults
    /\ got = "(not called)"

\* a call get_any(d, keys, default)
ExtractField ==
    /\ gstage = "input"
    /\ got' = get_any(g_d, g_keys, g_default)
    /\ gstage' = "done"
    /\ UNCHANGED <<g_d, g_keys, g_default, dirVars, synVars, appVars>>

GetIdle ==
    /\ gstage = "idle"
    /\ g_d = <<>>
    /\ g_keys = <<>>
    /\ g_default = ""
    /\ got = "(not called)"

(***************************************************************************)
(* The scripts: values they handle.                                        *)
(***************************************************************************)
EmptyDict == [k \in {} |-> None]
DictSet(m, key, v) == [k \in DOMAIN m \cup {key} |-> IF k = key THEN v ELSE m[k]]

\* messages and remote calls of a run
Event(kind, arg) == [kind |-> kind, arg |-> arg]
StError(msg) == Event("st.error", msg)
ListCall == Event("GET models", "generativelanguage.googleapis.com")
Download(url) == Event("GET image", url)
Post(model_name) == Event("POST generateContent", model_name)
SdkCall(what) == Event("genai generate_content", what)
TtsCall(lang_code) == Event("gTTS", lang_code)
AudioPlayer(autoplay) == Event("st.audio", IF autoplay THEN "autoplay" ELSE "no autoplay")

Kinds(evs) == [i \in 1..Len(evs) |-> evs[i].kind]
CountKind(evs, kind) == Cardinality({i \in 1..Len(evs) : evs[i].kind = kind})
RemoteKinds == {"GET models", "GET image", "POST generateContent", "genai generate_content", "gTTS"}

\* str.replace(old, new)
RECURSIVE StrReplace(_, _, _)
StrReplace(s, old, new) ==
    IF Len(s) < Len(old) THEN s
    ELSE IF SubSeq(s, 1, Len(old)) = old
         THEN new \o StrReplace(SubSeq(s, Len(old) + 1, Len(s)), old, new)
    ELSE SubSeq(s, 1, 1) \o StrReplace(SubSeq(s, 2, Len(s)), old, new)

\* lessons a model answers with, and the JSON texts that denote them
LessonA ==
    [vocabulary |-> << [target_word |-> "il gatto", pronunciation |-> "",
                        target_sentence |-> "Il gatto dorme.",
                        english_translation |-> "The cat sleeps."],
                       [word |-> "la casa", sentence |-> "", pinyin |-> None] >>,
     conversation |-> << [speaker |-> "", target_text |-> "Dov'e il gatto?"] >>,
     story |-> << [text |-> "Il gatto ha una casa."] >>]
LessonB ==
    [vocabulary |-> << [term |-> "le pain", example |-> "J'aime le pain."] >>]

\* what visto_vocale_app.py asks the model for
LessonV ==
    [vocabulary |-> << [object_name |-> "cheese", italian_word |-> "il formaggio",
                        english_translation |-> "The cheese is delicious.",
                        italian_sentence |-> "Il formaggio e delizioso."] >>]
\* an answer whose item lacks a key the page indexes
LessonW ==
    [vocabulary |-> << [object_name |-> "bread", italian_word |-> "il pane"] >>]

JsonDocuments ==
    [doc \in {"{lesson A}", "{lesson B}", "{lesson V}", "{lesson W}", "{}"} |->
        CASE doc = "{lesson A}" -> LessonA
          [] doc = "{lesson B}" -> LessonB
          [] doc = "{lesson V}" -> LessonV
          [] doc = "{lesson W}" -> LessonW
          [] OTHER -> [k \in {} |-> "None"]]

\* json.loads: raises on a text that is no JSON document
JsonLoads(text) ==
    IF text \in DOMAIN JsonDocuments THEN Return(JsonDocuments[text]) ELSE Raise

LANG_CONFIG ==
    [Italian |-> [code |-> "it", name |-> "Italian"],
     French |-> [code |-> "fr", name |-> "French"],
     Chinese |-> [code |-> "zh-CN", name |-> "Mandarin Chinese"]]

\* language codes the text-to-speech service accepts
TtsLanguages == {"it", "fr", "zh-CN", "en"}

\* gTTS(text=..., lang=...).write_to_fp(fp): raises on an empty text
\* (AssertionError), on an unsupported language (ValueError) and when the
\* service cannot be reached (gTTSError)
gTTS(text, lang_code, tts_up) ==
    IF text = "" \/ lang_code \notin TtsLanguages \/ ~tts_up THEN Raise
    ELSE Return("mp3:" \o text)

\* get_audio_bytes with its "except: return None" left out
get_audio_bytes_noexcept(text, lang_code, tts_up) == gTTS(text, lang_code, tts_up)

\* get_audio_bytes: None on any failure of gTTS
get_audio_bytes(text, lang_code, tts_up) ==
    LET r == gTTS(text, lang_code, tts_up)
    IN  IF r.exc THEN Return(None) ELSE r

(***************************************************************************)
(* vista_vocale_app.py: the photo lesson page.                             *)
(***************************************************************************)
\* bodies of the generateContent endpoint's answers
Candidates(raw_text) ==
    [candidates |-> << [content |-> [parts |-> << [text |-> raw_text] >>]] >>]

\* the code fence: three backquotes, written ''' as a TLA+ string cannot
\* hold a backquote
Fence == "'''"
GenOkFenced ==
    HttpResponse(200, TRUE, Candidates(Fence \o "json{lesson A}" \o Fence))
GenOkPlain == HttpResponse(200, TRUE, Candidates("{lesson B}"))
GenProse == HttpResponse(200, TRUE, Candidates("Sure! Here is your lesson."))
GenEmptyCandidates == HttpResponse(200, TRUE, [candidates |-> <<>>])
GenNoCandidates == HttpResponse(200, TRUE, [promptFeedback |-> "SAFETY"])
GenNotJson == HttpResponse(200, FALSE, <<>>)
GenStatus(code) == HttpResponse(code, TRUE, [error |-> "status"])

GenResponses ==
    { GenOkFenced, GenOkPlain, GenProse, GenEmptyCandidates, GenNoCandidates,
      GenNotJson, GenStatus(429), GenStatus(400), GenStatus(503), GenStatus(403),
      NetworkError }

\* lines 209-210: the text of the first candidate, unfenced and parsed
ParseCandidates(res_json) ==
    IF res_json["candidates"] = <<>> THEN Raise
    ELSE LET raw_text == res_json["candidates"][1]["content"]["parts"][1]["text"]
         IN  JsonLoads(StrReplace(StrReplace(raw_text, Fence \o "json", ""), Fence, ""))

\* lines 211-212 with the assignments left out
StoreLesson_dropped(sess, clean_json, current_lang) == sess

\* line 211 without line 212
StoreLesson_lesson_only(sess, clean_json, current_lang) ==
    DictSet(sess, "lesson_data", clean_json)

\* lines 211-212
StoreLesson(sess, clean_json, current_lang) ==
    DictSet(DictSet(sess, "lesson_data", clean_json), "current_lang_config", current_lang)

\* line 205 sent twice
PostRequest_twice(model_name) == <<Post(model_name), Post(model_name)>>

\* line 205: one requests.post
PostRequest(model_name) == <<Post(model_name)>>

\* lines 194-216: one request to model_name and what is made of its answer
AttemptLesson(model_name, current_lang, prov, sess) ==
    LET resp == prov[model_name]
        failed(msg) == [events |-> PostRequest(model_name) \o <<StError(msg)>>,
                        session |-> sess]
    IN  IF resp.raises THEN failed("Error: request failed")
        ELSE IF resp.status_code = 200
             THEN IF ~resp.is_json THEN failed("Error: body is not JSON")
                  ELSE IF "candidates" \in DOMAIN resp.data
                       THEN LET clean_json == ParseCandidates(resp.data)
                            IN  IF clean_json.exc
                                THEN failed("Error: candidate text cannot be parsed")
                                ELSE [events |-> PostRequest(model_name),
                                      session |-> StoreLesson(sess, clean_json.val, current_lang)]
                       ELSE failed("AI returned no candidates.")
        ELSE failed("Error " \o ToString(resp.status_code))

\* a model name no listing gave, as the stand-alone scripts hard-code it
GuessedModel == "gemini-2.5-flash"

\* the button handler going on with a guessed name when no model is listed
GenerateLesson_guessed(models, current_lang, prov, sess) ==
    AttemptLesson(IF models = <<>> THEN GuessedModel ELSE models[1],
                  current_lang, prov, sess)

\* lines 188-216: the handler of the Generate button
GenerateLesson(models, current_lang, prov, sess) ==
    IF models = <<>>
    THEN [events |-> <<StError("No models found.")>>, session |-> sess]
    ELSE AttemptLesson(models[1], current_lang, prov, sess)

\* lines 226-239: the vocabulary tab, one gTTS call per item; an exception
\* leaving get_audio_bytes would end the run
RECURSIVE ShowVocabulary(_, _, _)
ShowVocabulary(items, lang_code, tts_up) ==
    IF items = <<>> THEN [events |-> <<>>, ended |-> "done"]
    ELSE LET item == Head(items)
             word == get_any(item, <<"target_word", "word", "term">>, "")
             sent == get_any(item, <<"target_sentence", "sentence", "example">>, "")
             ab == get_audio_bytes(word \o "... " \o sent, lang_code, tts_up)
             rest == ShowVocabulary(Tail(items), lang_code, tts_up)
         IN  IF ab.exc THEN [events |-> <<TtsCall(lang_code)>>, ended |-> "crash"]
             ELSE [events |-> <<TtsCall(lang_code)>>
                              \o (IF ab.val # None THEN <<AudioPlayer(FALSE)>> ELSE <<>>)
                              \o rest.events,
                   ended |-> rest.ended]

\* lines 219-266: the lesson kept in the session is displayed
DisplayLesson(sess, tts_up) ==
    IF "lesson_data" \in DOMAIN sess
    THEN ShowVocabulary(DictGet(sess["lesson_data"], "vocabulary", <<>>),
                        LANG_CONFIG[sess["current_lang_config"]].code, tts_up)
    ELSE [events |-> <<>>, ended |-> "done"]

\* the image chosen: an uploaded file, a gallery scene (downloaded), or both
ImageInputs == [upload : BOOLEAN, gallery : {"Select...", "downloaded", "download failed"}]
HasImage(image) == image.upload \/ image.gallery = "downloaded"

\* what the listing endpoint answers while the page is used
AppDirectoryResponses ==
    { NetworkError,
      HttpResponse(200, TRUE,
        [models |-> << [name |-> "models/gemini-2.5-flash-preview-TTS",
                        supportedGenerationMethods |-> GenMethods] >>]),
      HttpResponse(200, TRUE,
        [models |-> << [name |-> "gemini-x-lite", supportedGenerationMethods |-> GenMethods],
                       [name |-> "gemini-x-flash", supportedGenerationMethods |-> GenMethods] >>]),
      HttpResponse(200, TRUE,
        [models |-> << [name |-> "models/gemini-2.5-flash-lite", supportedGenerationMethods |-> GenMethods],
                       [name |-> "models/gemini-2.5-pro", supportedGenerationMethods |-> GenMethods],
                       [name |-> "models/gemini-2.5-flash", supportedGenerationMethods |-> GenMethods],
                       [name |-> "models/gemini-3-pro-preview", supportedGenerationMethods |-> GenMethods] >>]) }

ModelNames ==
    { "gemini-x-lite", "gemini-x-flash", "models/gemini-2.5-flash-lite",
      "models/gemini-2.5-pro", "models/gemini-2.5-flash",
      "models/gemini-3-pro-preview", GuessedModel }

\* how the generation endpoint answers, model by model
AllAnswer(resp) == [m \in ModelNames |-> resp]
FlashLimited ==
    [m \in ModelNames |-> IF m = "gemini-x-flash" THEN GenStatus(429) ELSE GenOkPlain]
ProviderBehaviours == { AllAnswer(r) : r \in GenResponses } \cup { FlashLimited }
NotCalled == AllAnswer(NetworkError)

\* line 153, cached per answer of the listing endpoint
RankedFor == [listing \in AppDirectoryResponses |-> get_prioritized_models(listing).val]

\* lines 171-177: the gallery scene is downloaded
FetchScene(image) ==
    IF image.gallery = "Select..." THEN <<>> ELSE <<Download("upload.wikimedia.org")>>

\* the widgets run_photo_app draws
PhotoWidgets(image, sess) ==
    {"Home", "Upload Image:", "Choose scene:"}
    \cup (IF HasImage(image) THEN {"st.image", "Target Language:", "Generate"} ELSE {})
    \cup (IF "lesson_data" \in DOMAIN sess THEN {"lesson tabs", "Download (.txt)"} ELSE {})

\* the scripts, and whether GEMINI_API_KEY is configured
Apps == {"vista_vocale_app", "parla_app", "visto_vocale_app"}
ApiKeys == {None, "AIza-key"}

AppInit ==
    /\ app \in Apps
    /\ api_key \in ApiKeys
    /\ session = EmptyDict
    /\ pending_rerun = FALSE
    /\ trigger = "(no run yet)"
    /\ inputs = EmptyDict
    /\ my_models = <<>>
    /\ provider = NotCalled
    /\ events = <<>>
    /\ widgets = {}
    /\ ended = "(no run yet)"
    /\ pc = "idle"

AppIdle ==
    /\ app = "(none)"
    /\ api_key = None
    /\ session = EmptyDict
    /\ pending_rerun = FALSE
    /\ trigger = "(no run yet)"
    /\ inputs = EmptyDict
    /\ my_models = <<>>
    /\ provider = NotCalled
    /\ events = <<>>
    /\ widgets = {}
    /\ ended = "(no run yet)"
    /\ pc = "idle"

\* lines 18-23 of vista_vocale_app.py, 11-16 of parla_app.py: no key, st.stop()
NoKeyRun ==
    /\ app \in {"vista_vocale_app", "parla_app"}
    /\ api_key = None
    /\ pc = "idle"
    /\ trigger' \in {"load", "click"}
    /\ inputs' = EmptyDict
    /\ my_models' = <<>>
    /\ provider' = NotCalled
    /\ events' = <<StError("API Key missing.")>>
    /\ widgets' = {}
    /\ ended' = "stop"
    /\ UNCHANGED <<pc, session, pending_rerun, app, api_key, dirVars, getVars, synVars>>

\* lines 343-357: the main menu
HomeRun ==
    /\ app = "vista_vocale_app"
    /\ api_key # None
    /\ pc = "idle"
    /\ DictGet(session, "current_page", "home") = "home"
    /\ \E trig \in {"load", "photo", "parla"} :
          /\ pending_rerun => trig = "load"
          /\ trigger' = trig
          /\ session' = DictSet(session, "current_page", IF trig = "load" THEN "home" ELSE trig)
          /\ pending_rerun' = (trig # "load")
          /\ ended' = IF trig = "load" THEN "done" ELSE "rerun"
    /\ inputs' = EmptyDict
    /\ my_models' = <<>>
    /\ provider' = NotCalled
    /\ events' = <<>>
    /\ widgets' = {"Photo Lesson", "Parla (Chat)"}
    /\ UNCHANGED <<pc, app, api_key, dirVars, getVars, synVars>>

\* lines 358-359 and 138-143: the router enters run_photo_app; the Home
\* button sets the page and reruns
PhotoStart ==
    /\ app = "vista_vocale_app"
    /\ api_key # None
    /\ pc = "idle"
    /\ DictGet(session, "current_page", "home") = "photo"
    /\ \E trig \in {"load", "home", "generate"}, image \in ImageInputs,
          lang \in DOMAIN LANG_CONFIG :
          /\ pending_rerun => trig = "load"
          \* widget values the run never reads are left at one value
          /\ trig = "home" => image = [upload |-> FALSE, gallery |-> "Select..."]
          /\ ~HasImage(image) => lang = "Italian" /\ trig # "generate"
          /\ trigger' = trig
          /\ inputs' = [image |-> image, lang |-> lang]
          /\ session' = IF trig = "home" THEN DictSet(session, "current_page", "home")
                        ELSE session
          /\ widgets' = IF trig = "home" THEN {"Home"} ELSE {}
          /\ ended' = IF trig = "home" THEN "rerun" ELSE "running"
          /\ pc' = IF trig = "home" THEN "idle" ELSE "listing"
          /\ pending_rerun' = (trig = "home")
    /\ my_models' = <<>>
    /\ provider' = NotCalled
    /\ events' = <<>>
    /\ UNCHANGED <<app, api_key, dirVars, getVars, synVars>>

\* lines 153-186: the models are listed and ranked, the image is obtained
PhotoListing ==
    /\ pc = "listing"
    /\ \E listing \in AppDirectoryResponses :
          my_models' = RankedFor[listing]
    /\ events' = <<ListCall>> \o FetchScene(inputs.image)
    /\ pc' = IF HasImage(inputs.image) /\ trigger = "generate" THEN "generate" ELSE "display"
    /\ UNCHANGED <<trigger, inputs, provider, widgets, ended, session, pending_rerun,
                   app, api_key, dirVars, getVars, synVars>>

\* lines 188-216: the Generate button was pressed
PhotoGenerate ==
    /\ pc = "generate"
    /\ \E prov \in (IF my_models = <<>> THEN {NotCalled} ELSE ProviderBehaviours) :
       \E gen \in {GenerateLesson(my_models, inputs.lang, prov, session)} :
          /\ provider' = prov
          /\ events' = events \o gen.events
          /\ session' = gen.session
    /\ pc' = "display"
    /\ UNCHANGED <<trigger, inputs, my_models, widgets, ended, pending_rerun,
                   app, api_key, dirVars, getVars, synVars>>

\* lines 218-266: the stored lesson is displayed and the run ends
PhotoDisplay ==
    /\ pc = "display"
    /\ \E tts_up \in (IF "lesson_data" \in DOMAIN session THEN BOOLEAN ELSE {TRUE}) :
       \E shown \in {DisplayLesson(session, tts_up)} :
          /\ events' = events \o shown.events
          /\ ended' = shown.ended
    /\ widgets' = PhotoWidgets(inputs.image, session)
    /\ pc' = "idle"
    /\ UNCHANGED <<trigger, inputs, my_models, provider, session, pending_rerun,
                   app, api_key, dirVars, getVars, synVars>>

(***************************************************************************)
(* The voice chat: run_parla_app of vista_vocale_app.py and parla_app.py.  *)
(***************************************************************************)
\* the session keys the two copies of the chat use
VistaChatKeys ==
    [history |-> "parla_history", audio |-> "parla_audio", flag |-> "parla_trigger"]
ParlaChatKeys ==
    [history |-> "chat_history", audio |-> "last_audio", flag |-> "autoplay_trigger"]

Turn(role, text) == [role |-> role, parts |-> <<text>>]
InitialHistory == << Turn("user", "Ciao!"), Turn("model", "Ciao! Sono Giulia.") >>

\* the if audio: block; fail_at names the call that raises, if any
VoiceExchange(sess, K, fail_at) ==
    LET s2 == DictSet(sess, K.history, Append(sess[K.history], Turn("user", "Ho fame.")))
        s3 == DictSet(s2, K.history, Append(s2[K.history], Turn("model", "Cosa vuoi mangiare?")))
        s4 == DictSet(DictSet(s3, K.audio, "mp3:Cosa vuoi mangiare?"), K.flag, TRUE)
        listen == <<SdkCall("transcribe")>>
        chat == listen \o <<SdkCall("chat")>>
        speak == chat \o <<TtsCall("it")>>
    IN  CASE fail_at = "transcribe" ->
               [session |-> sess, events |-> listen \o <<StError("Error: transcription")>>,
                ended |-> "done"]
          [] fail_at = "chat" ->
               [session |-> s2, events |-> chat \o <<StError("Error: chat")>>, ended |-> "done"]
          [] fail_at = "tts" ->
               [session |-> s3, events |-> speak \o <<StError("Error: gTTS")>>, ended |-> "done"]
          [] OTHER ->
               [session |-> s4, events |-> speak, ended |-> "rerun"]

\* the persistent player without the reset of the flag
ReplayPlayer_sticky(sess, K) ==
    IF K.audio \in DOMAIN sess
    THEN [session |-> sess, events |-> <<AudioPlayer(DictGet(sess, K.flag, FALSE))>>]
    ELSE [session |-> sess, events |-> <<>>]

\* the persistent player: autoplay once, then the flag is cleared
ReplayPlayer(sess, K) ==
    IF K.audio \in DOMAIN sess
    THEN LET should_auto == DictGet(sess, K.flag, FALSE)
         IN  [session |-> IF should_auto THEN DictSet(sess, K.flag, FALSE) ELSE sess,
              events |-> <<AudioPlayer(should_auto)>>]
    ELSE [session |-> sess, events |-> <<>>]

\* the chat page from the translation helper to the player
\* (vista_vocale_app.py 289-338, parla_app.py 33-114)
ChatPage(sess, K, english_text, translate_ok, audio, fail_at) ==
    LET helper == IF english_text # "" THEN <<SdkCall("translate")>> ELSE <<>>
        s1 == IF K.history \in DOMAIN sess THEN sess
              ELSE DictSet(sess, K.history, InitialHistory)
        voice == IF audio THEN VoiceExchange(s1, K, fail_at)
                 ELSE [session |-> s1, events |-> <<>>, ended |-> "done"]
        player == ReplayPlayer(voice.session, K)
    IN  IF english_text # "" /\ ~translate_ok
        THEN [session |-> sess, events |-> helper, ended |-> "crash",
              widgets |-> {"Helper"}]
        ELSE IF voice.ended = "rerun"
        THEN [session |-> voice.session, events |-> helper \o voice.events,
              ended |-> "rerun", widgets |-> {"Helper", "mic_recorder"}]
        ELSE [session |-> player.session,
              events |-> helper \o voice.events \o player.events,
              ended |-> "done", widgets |-> {"Helper", "mic_recorder"}]

\* the inputs of a chat run
ChatInputs ==
    [english_text : {"", "I am hungry"}, translate_ok : BOOLEAN, audio : BOOLEAN,
     fail_at : {"none", "transcribe", "chat", "tts"}]
\* inputs the run never reads are left at one value
ChatInputRead(in) ==
    /\ in.english_text = "" => in.translate_ok
    /\ (~in.audio \/ (in.english_text # "" /\ ~in.translate_ok)) => in.fail_at = "none"

ChatLength(sess, K) == IF K.history \in DOMAIN sess THEN Len(sess[K.history]) ELSE 0

\* lines 360-361 and 271-338: the router runs run_parla_app
VistaParlaRun ==
    /\ app = "vista_vocale_app"
    /\ api_key # None
    /\ pc = "idle"
    /\ DictGet(session, "current_page", "home") = "parla"
    /\ \E trig \in {"load", "home", "helper", "mic"}, in \in ChatInputs :
          /\ pending_rerun => trig = "load"
          /\ ChatInputRead(in)
          /\ in.audio <=> trig = "mic"
          /\ trig = "helper" => in.english_text # ""
          /\ trig = "home" => in.english_text = ""
          /\ in.audio => ChatLength(session, VistaChatKeys) + 2 <= MaxChatLen
          /\ \E r \in { IF trig = "home"
                        THEN [session |-> DictSet(session, "current_page", "home"),
                              events |-> <<>>, ended |-> "rerun", widgets |-> {"Home"}]
                        ELSE ChatPage(session, VistaChatKeys, in.english_text,
                                      in.translate_ok, in.audio, in.fail_at) } :
                /\ session' = r.session
                /\ events' = r.events
                /\ ended' = r.ended
                /\ widgets' = r.widgets \cup (IF trig = "home" THEN {} ELSE {"Home", "Download Log"})
                /\ pending_rerun' = (r.ended = "rerun")
          /\ trigger' = trig
          /\ inputs' = in
    /\ my_models' = <<>>
    /\ provider' = NotCalled
    /\ UNCHANGED <<pc, app, api_key, dirVars, getVars, synVars>>

\* parla_app.py, lines 18-114, with the key configured
ParlaAppRun ==
    /\ app = "parla_app"
    /\ api_key # None
    /\ pc = "idle"
    /\ \E trig \in {"load", "helper", "mic"}, in \in ChatInputs :
          /\ pending_rerun => trig = "load"
          /\ ChatInputRead(in)
          /\ in.audio <=> trig = "mic"
          /\ trig = "helper" => in.english_text # ""
          /\ in.audio => ChatLength(session, ParlaChatKeys) + 2 <= MaxParlaChatLen
          /\ \E r \in { ChatPage(session, ParlaChatKeys, in.english_text,
                                 in.translate_ok, in.audio, in.fail_at) } :
                /\ session' = r.session
                /\ events' = r.events
                /\ ended' = r.ended
                /\ widgets' = r.widgets \cup {"title"}
                /\ pending_rerun' = (r.ended = "rerun")
          /\ trigger' = trig
          /\ inputs' = in
    /\ my_models' = <<>>
    /\ provider' = NotCalled
    /\ UNCHANGED <<pc, app, api_key, dirVars, getVars, synVars>>

(***************************************************************************)
(* visto_vocale_app.py: the stand-alone image lesson.                      *)
(***************************************************************************)
\* str.strip(chars): characters of chars removed from both ends
RECURSIVE LStrip(_, _)
LStrip(s, chars) ==
    IF Len(s) > 0 /\ Contains(SubSeq(s, 1, 1), chars)
    THEN LStrip(SubSeq(s, 2, Len(s)), chars) ELSE s
RECURSIVE RStrip(_, _)
RStrip(s, chars) ==
    IF Len(s) > 0 /\ Contains(SubSeq(s, Len(s), Len(s)), chars)
    THEN RStrip(SubSeq(s, 1, Len(s) - 1), chars) ELSE s
Strip(s, chars) == RStrip(LStrip(s, chars), chars)

\* lines 31-41: this script's get_audio_bytes reports the failure
visto_get_audio_bytes(text, lang, tts_up) ==
    LET tts == gTTS(text, lang, tts_up)
    IN  IF tts.exc
        THEN [exc |-> FALSE, val |-> None,
              events |-> <<TtsCall(lang), StError("Audio error")>>]
        ELSE [exc |-> FALSE, val |-> tts.val, events |-> <<TtsCall(lang)>>]

\* texts gemini_response.text may hold; "raise" stands for a failed call
VistoAnswers ==
    { "raise", Fence \o "json" \o "{lesson V}" \o Fence, "{lesson V}", "{lesson W}",
      "{}", "I see cheese." }

\* lines 43-76: (lesson, image) or (None, None), and what was called
analyze_image_lesson(key, download_ok, answer) ==
    IF key = None \/ key = ""
    THEN [returned |-> "None, None",
          events |-> <<StError("GEMINI_API_KEY is not set")>>]
    ELSE IF ~download_ok
    THEN [returned |-> "None, None",
          events |-> <<Download("image_url"), StError("Error processing image")>>]
    ELSE IF answer = "raise"
    THEN [returned |-> "None, None",
          events |-> <<Download("image_url"), SdkCall("gemini-2.5-flash"),
                       StError("Error processing image")>>]
    ELSE LET json_text == Strip(Strip(answer, Fence \o "json"), Fence)
             parsed == JsonLoads(json_text)
         IN  IF parsed.exc
             THEN [returned |-> "None, None",
                   events |-> <<Download("image_url"), SdkCall("gemini-2.5-flash"),
                                StError("Error processing image")>>]
             ELSE [returned |-> "lesson, image", lesson |-> parsed.val,
                   events |-> <<Download("image_url"), SdkCall("gemini-2.5-flash")>>]

\* lines 107-123: the items; item['italian_sentence'] raises KeyError
RECURSIVE VistoItems(_, _)
VistoItems(items, tts_up) ==
    IF items = <<>> THEN [events |-> <<>>, ended |-> "done"]
    ELSE LET item == Head(items) IN
         IF {"italian_word", "object_name", "italian_sentence", "english_translation"}
                \subseteq DOMAIN item
         THEN LET audio_text == item["italian_word"] \o "... " \o item["italian_sentence"]
                  ab == visto_get_audio_bytes(audio_text, "it", tts_up)
                  rest == VistoItems(Tail(items), tts_up)
              IN  [events |-> ab.events
                              \o (IF ab.val # None THEN <<AudioPlayer(FALSE)>> ELSE <<>>)
                              \o rest.events,
                   ended |-> rest.ended]
         ELSE [events |-> <<>>, ended |-> "crash"]

\* the whole script, lines 78-124
visto_vocale_app(key, trig, image_url, download_ok, answer, tts_up) ==
    LET page == {"Image URL:", "Analyze Image"}
    IN  IF trig = "analyze" /\ image_url # ""
        THEN LET a == analyze_image_lesson(key, download_ok, answer) IN
             IF a.returned = "lesson, image" /\ DOMAIN a.lesson # {}
             THEN IF "vocabulary" \in DOMAIN a.lesson
                  THEN LET shown == VistoItems(a.lesson["vocabulary"], tts_up)
                       IN  [events |-> a.events \o shown.events, ended |-> shown.ended,
                            widgets |-> page \cup {"st.image"}]
                  ELSE [events |-> a.events, ended |-> "done", widgets |-> page \cup {"st.image"}]
             ELSE [events |-> a.events, ended |-> "done", widgets |-> page]
        ELSE [events |-> <<>>, ended |-> "done", widgets |-> page]

VistoInputs ==
    [image_url : {"", "https://i.imgur.com/8QzL0jT.jpeg"}, download_ok : BOOLEAN,
     answer : VistoAnswers, tts_up : BOOLEAN]

\* a run of visto_vocale_app.py, key or no key
VistoRun ==
    /\ app = "visto_vocale_app"
    /\ pc = "idle"
    /\ \E trig \in {"load", "analyze"}, in \in VistoInputs :
       \E r \in { visto_vocale_app(api_key, trig, in.image_url, in.download_ok,
                                   in.answer, in.tts_up) } :
          \* inputs the run never reads are left at one value
          /\ CountKind(r.events, "GET image") = 0 => in.download_ok
          /\ CountKind(r.events, "genai generate_content") = 0 => in.answer = "raise"
          /\ CountKind(r.events, "gTTS") = 0 => in.tts_up
          /\ trigger' = trig
          /\ inputs' = in
          /\ events' = r.events
          /\ widgets' = r.widgets
          /\ ended' = r.ended
    /\ my_models' = <<>>
    /\ provider' = NotCalled
    /\ UNCHANGED <<pc, session, pending_rerun, app, api_key, dirVars, getVars, synVars>>

(***************************************************************************)
(* Speech synthesis: get_audio_bytes of either script on its own, and the  *)
(* item loop that calls it.                                                *)
(***************************************************************************)
SynTexts == {"", "ciao", "il gatto... Il gatto dorme."}
\* "xx" and "" are codes gTTS does not know
SynLangs == {"it", "zh-CN", "xx", ""}
SynItemPool ==
    { [target_word |-> "il gatto", target_sentence |-> "Il gatto dorme.",
       object_name |-> "cat", italian_word |-> "il gatto",
       italian_sentence |-> "Il gatto dorme.", english_translation |-> "The cat sleeps."],
      [target_word |-> "la casa", target_sentence |-> "La casa e grande.",
       object_name |-> "house", italian_word |-> "la casa",
       italian_sentence |-> "La casa e grande.", english_translation |-> "The house is big."] }
SynItems == UNION { [1..n -> SynItemPool] : n \in 0..MaxItems }

SynInit ==
    /\ sstage = "input"
    /\ s_script \in {"vista_vocale_app", "visto_vocale_app"}
    /\ s_text \in SynTexts
    /\ s_lang \in SynLangs
    /\ s_up \in BOOLEAN
    /\ s_items \in SynItems
    /\ spoken = Return(None)
    /\ rendered = [events |-> <<>>, ended |-> "(not run)"]

SynIdle ==
    /\ sstage = "idle"
    /\ s_script = "(none)"
    /\ s_text = ""
    /\ s_lang = ""
    /\ s_up = FALSE
    /\ s_items = <<>>
    /\ spoken = Return(None)
    /\ rendered = [events |-> <<>>, ended |-> "(not run)"]

\* get_audio_bytes(s_text, s_lang) is called, and the items are rendered by
\* the loop of the script (vista_vocale_app.py 226-239 with lang['code'],
\* visto_vocale_app.py 107-123 with the default 'it')
Synthesize ==
    /\ sstage = "input"
    /\ spoken' = IF s_script = "vista_vocale_app"
                 THEN get_audio_bytes(s_text, s_lang, s_up)
                 ELSE visto_get_audio_bytes(s_text, s_lang, s_up)
    /\ rendered' = IF s_script = "vista_vocale_app"
                THEN ShowVocabulary(s_items, s_lang, s_up)
                ELSE VistoItems(s_items, s_up)
    /\ sstage' = "done"
    /\ UNCHANGED <<s_script, s_text, s_lang, s_up, s_items, dirVars, getVars, appVars>>

Next ==
    \/ NoKeyRun \/ HomeRun \/ PhotoStart \/ PhotoListing \/ PhotoGenerate \/ PhotoDisplay
    \/ VistaParlaRun \/ ParlaAppRun \/ VistoRun

vars == <<dirVars, getVars, synVars, appVars>>

InitDirectory == DirInit /\ GetIdle /\ SynIdle /\ AppIdle
SpecDirectory == InitDirectory /\ [][ListRankedModels]_vars

InitGetAny == GetInit /\ DirIdle /\ SynIdle /\ AppIdle
SpecGetAny == InitGetAny /\ [][ExtractField]_vars

InitSynthesize == SynInit /\ DirIdle /\ GetIdle /\ AppIdle
SpecSynthesize == InitSynthesize /\ [][Synthesize]_vars

Init == AppInit /\ DirIdle /\ GetIdle /\ SynIdle
Spec == Init /\ [][Next]_vars

(***************************************************************************)
(* Properties of the model directory, checked under SpecDirectory.         *)
(***************************************************************************)
\* the listing carried by a response (empty when the body has no 'models')
ListingOf(response) == DictGet(response.data, "models", <<>>)

\* the response is a listing: fetched with status 200 and a JSON body
IsListing(response) ==
    ~response.raises /\ response.status_code = 200 /\ response.is_json

AllNamed(response) ==
    \A i \in 1..Len(ListingOf(response)) : "name" \in DOMAIN ListingOf(response)[i]

\* a listed model that supports generation and is no tts / embedding model
Usable(m) ==
    /\ "name" \in DOMAIN m
    /\ "supportedGenerationMethods" \in DOMAIN m
    /\ "generateContent" \in m["supportedGenerationMethods"]
    /\ ~Contains("tts", Lower(m["name"]))
    /\ ~Contains("embedding", Lower(m["name"]))

UsableEntries(response) == SelectSeq(ListingOf(response), Usable)
UsableNames(response) ==
    [i \in 1..Len(UsableEntries(response)) |-> UsableEntries(response)[i]["name"]]

Occurrences(x, s) == Cardinality({i \in 1..Len(s) : s[i] = x})
SameMembers(s, t) ==
    /\ Len(s) = Len(t)
    /\ \A i \in 1..Len(s) : Occurrences(s[i], s) = Occurrences(s[i], t)

\* C5 as stated: for every provider listing the result holds exactly the
\* usable names, none added and none dropped, and is non-empty whenever a
\* usable model is listed.
C5_EveryListing ==
    (dstage = "done" /\ IsListing(listing_resp)) =>
        /\ ~ranked.exc
        /\ SameMembers(ranked.val, UsableNames(listing_resp))
        /\ (Len(UsableNames(listing_resp)) > 0 => Len(ranked.val) > 0)

\* C5 amended: for every listing fetched and parsed without error, every
\* entry carrying a name, the result holds exactly the names of the listed
\* models that support generateContent and whose lower-cased name contains
\* neither "tts" nor "embedding": none added, none dropped, non-empty
\* whenever one such model is listed.
C5_ExactlyUsableNames ==
    (dstage = "done" /\ IsListing(listing_resp) /\ AllNamed(listing_resp)) =>
        /\ ~ranked.exc
        /\ SameMembers(ranked.val, UsableNames(listing_resp))
        /\ (Len(UsableNames(listing_resp)) > 0 => Len(ranked.val) > 0)

\* a listing with an upper-case TTS model, a model without generateContent
\* and a usable model has been ranked: only the usable one is returned
C5_Witness ==
    /\ dstage = "done"
    /\ IsListing(listing_resp) /\ AllNamed(listing_resp)
    /\ Len(ListingOf(listing_resp)) = 3
    /\ \E i \in 1..3 : ListingOf(listing_resp)[i]["name"] = "models/gemini-2.5-flash-preview-TTS"
    /\ \E i \in 1..3 : ListingOf(listing_resp)[i]["name"] = "models/aqa"
    /\ ranked = Return(<<"models/gemini-2.5-pro">>)

Fragments == <<"gemini-3", "gemini-2.5-flash", "gemini-2.5">>
Unmatched == Len(Fragments) + 1

\* the first preferred fragment the name contains
FragmentRank(name) ==
    IF \E i \in 1..Len(Fragments) : Contains(Fragments[i], name)
    THEN CHOOSE i \in 1..Len(Fragments) :
            /\ Contains(Fragments[i], name)
            /\ \A j \in 1..(i - 1) : ~Contains(Fragments[j], name)
    ELSE Unmatched

\* the first preferred fragment the name contains, a "gemini-2.5" fragment
\* counting only for a name without "lite"
Preferred(i, name) ==
    /\ Contains(Fragments[i], name)
    /\ (i = 1 \/ ~Contains("lite", name))
PriorityRank(name) ==
    IF \E i \in 1..Len(Fragments) : Preferred(i, name)
    THEN CHOOSE i \in 1..Len(Fragments) :
            /\ Preferred(i, name)
            /\ \A j \in 1..(i - 1) : ~Preferred(j, name)
    ELSE Unmatched

\* s is ordered by rank, and the names of one rank are in the order of t
OrderedBy(Rank(_), s, t) ==
    /\ \A p, q \in 1..Len(s) : Rank(s[p]) < Rank(s[q]) => p < q
    /\ \A k \in 1..Unmatched :
          SelectSeq(s, LAMBDA n : Rank(n) = k) = SelectSeq(t, LAMBDA n : Rank(n) = k)

\* C6 as stated: a name containing an earlier fragment precedes a name
\* containing only a later one, both precede unmatched names, and names of
\* equal priority keep their provider order.
C6_ByFragment ==
    (dstage = "done" /\ IsListing(listing_resp) /\ AllNamed(listing_resp)) =>
        OrderedBy(FragmentRank, ranked.val, UsableNames(listing_resp))

\* C6 amended: with a "gemini-2.5-flash" or "gemini-2.5" fragment counting
\* only for names that do not contain "lite" (such names rank with the
\* unmatched ones unless they contain "gemini-3"), a name matching an earlier
\* fragment precedes a name matching only a later one, both precede
\* unmatched names, whatever the provider order, and names of equal priority
\* keep their relative provider order.
C6_RankedStable ==
    (dstage = "done" /\ IsListing(listing_resp) /\ AllNamed(listing_resp)) =>
        OrderedBy(PriorityRank, ranked.val, UsableNames(listing_resp))

\* a listing was ranked in which a "lite" model and an unmatched model
\* precede a "gemini-2.5" model: the latter comes first, the other two keep
\* their provider order
C6_Witness ==
    /\ dstage = "done"
    /\ UsableNames(listing_resp) =
          <<"models/gemini-2.5-flash-lite", "gemini-x-flash", "models/gemini-2.5-pro">>
    /\ ranked.val =
          <<"models/gemini-2.5-pro", "models/gemini-2.5-flash-lite", "gemini-x-flash">>

\* a transport or parse error: the call failed, the status is not 200, the
\* body is not JSON, or a model entry has no name
TransportOrParseError(response) ==
    \/ response.raises
    \/ response.status_code # 200
    \/ ~response.is_json
    \/ ~AllNamed(response)

\* C7: on any transport or parse error get_prioritized_models returns the
\* empty sequence and does not raise.
C7_EmptyOnError ==
    (dstage = "done" /\ TransportOrParseError(listing_resp)) =>
        ranked = Return(<<>>)

\* a listing holding a usable model and an entry without a name was
\* ranked, and the result is empty
C7_Witness ==
    /\ dstage = "done"
    /\ IsListing(listing_resp) /\ ~AllNamed(listing_resp)
    /\ Len(UsableNames(listing_resp)) > 0
    /\ ranked = Return(<<>>)

(***************************************************************************)
(* Properties of the response normalizer, checked under SpecGetAny.        *)
(***************************************************************************)
\* the spellings probed, in order: each key, then its lower-cased form
Probes(keys) ==
    [j \in 1..(2 * Len(keys)) |->
        IF j % 2 = 1 THEN keys[(j + 1) \div 2] ELSE Lower(keys[j \div 2])]

First(S) == CHOOSE j \in S : \A k \in S : j <= k

\* C9 as stated: the value of the first candidate key present in the
\* record, by its exact or else its lower-cased spelling; the default when
\* no candidate key is present.
C9_FirstPresent ==
    gstage = "done" =>
        LET present == {j \in 1..(2 * Len(g_keys)) : Probes(g_keys)[j] \in DOMAIN g_d}
        IN  got = IF present = {} THEN g_default ELSE g_d[Probes(g_keys)[First(present)]]

\* C9 amended: probing, for each candidate key in order, its exact and then
\* its lower-cased spelling, get_any returns the first non-empty value
\* found, and the default when no probe finds a non-empty value (in
\* particular when no candidate key is present).
C9_FirstNonEmpty ==
    gstage = "done" =>
        LET hits == {j \in 1..(2 * Len(g_keys)) :
                        /\ Probes(g_keys)[j] \in DOMAIN g_d
                        /\ g_d[Probes(g_keys)[j]] \notin {"", None}}
        IN  got = IF hits = {} THEN g_default ELSE g_d[Probes(g_keys)[First(hits)]]

\* several synonyms collide: the first key is present but empty, its
\* lower-cased spelling and a later key both hold a value, and the
\* lower-cased spelling's value was returned
C9_Witness ==
    /\ gstage = "done"
    /\ g_keys = <<"Term", "Word", "word">>
    /\ DOMAIN g_d = {"Word", "word", "term"}
    /\ g_d["term"] = "" /\ g_d["Word"] = None /\ g_d["word"] = "la casa"
    /\ g_default = "Speaker"
    /\ got = "la casa"

(***************************************************************************)
(* Properties of the photo lesson page and of start-up, checked under Spec.*)
(***************************************************************************)
\* generate's maxAttempts (spec 4.2: "a small bounded constant, e.g., 4")
MaxAttempts == 4

\* a run of the photo page in which Generate was pressed has ended
GenerateRun ==
    /\ app = "vista_vocale_app"
    /\ trigger = "generate"
    /\ ended = "done"

Posts == SelectSeq(events, LAMBDA e : e.kind = "POST generateContent")
PostCount == CountKind(events, "POST generateContent")
ErrorCount == CountKind(events, "st.error")
PositionsOf(kind) == {i \in 1..Len(events) : events[i].kind = kind}

\* the classes of answers of spec 4.2
Transient(resp) == ~resp.raises /\ resp.status_code \in {429, 400, 503}
Fatal(resp) == resp.raises \/ resp.status_code \in {401, 403}
WellFormedSuccess(resp) ==
    /\ ~resp.raises /\ resp.status_code = 200 /\ resp.is_json
    /\ "candidates" \in DOMAIN resp.data
    /\ ~ParseCandidates(resp.data).exc

\* C1: when every attempt yields a transient status, the requests of the run
\* go to the first maxAttempts ranked candidates, one each, and then one
\* failure is reported.
C1_TriesMaxAttempts ==
    (/\ GenerateRun
     /\ Len(my_models) >= MaxAttempts
     /\ \A m \in ModelNames : Transient(provider[m]))
    => /\ Posts = [i \in 1..MaxAttempts |-> Post(my_models[i])]
       /\ ErrorCount = 1
       /\ \A i \in PositionsOf("st.error") : \A j \in PositionsOf("POST generateContent") : j < i

\* C2: with "gemini-x-lite" and "gemini-x-flash" listed, 429 for the flash
\* model and success for the lite model, "gemini-x-flash" is ranked first and
\* the lesson is obtained from "gemini-x-lite" by the second of exactly two
\* requests.
C2_FallbackScenario ==
    (/\ GenerateRun
     /\ SameMembers(my_models, <<"gemini-x-lite", "gemini-x-flash">>)
     /\ provider["gemini-x-flash"] = GenStatus(429)
     /\ WellFormedSuccess(provider["gemini-x-lite"]))
    => /\ my_models[1] = "gemini-x-flash"
       /\ Posts = <<Post("gemini-x-flash"), Post("gemini-x-lite")>>
       /\ "lesson_data" \in DOMAIN session
       /\ session["lesson_data"] = ParseCandidates(provider["gemini-x-lite"].data).val

\* C3: when the request of the run returns HTTP success with a parseable
\* body holding a result, the parsed result is stored with the selected
\* language and exactly one generation request was issued in the run; in
\* any run, no generation request follows one that was answered so.
C3_StopsAtFirstSuccess ==
    /\ (/\ GenerateRun
        /\ my_models # <<>>
        /\ WellFormedSuccess(provider[my_models[1]]))
       => /\ Posts = <<Post(my_models[1])>>
          /\ ErrorCount = 0
          /\ "lesson_data" \in DOMAIN session
          /\ session["lesson_data"] = ParseCandidates(provider[my_models[1]].data).val
          /\ session["current_lang_config"] = inputs.lang
    /\ GenerateRun =>
          \A i \in 1..Len(Posts) :
              WellFormedSuccess(provider[Posts[i].arg]) => i = Len(Posts)

\* Generate was pressed with four ranked models which would all answer with
\* a fenced lesson: one request was made and lesson A is stored
C3_Witness ==
    /\ GenerateRun
    /\ Len(my_models) = 4
    /\ provider = AllAnswer(GenOkFenced)
    /\ PostCount = 1
    /\ session["lesson_data"] = LessonA
    /\ inputs.lang = "Chinese"

\* C4: when the first attempt yields a fatal error (authentication or
\* network failure), exactly one generation request is issued, to the first
\* candidate, and the error is reported after it.
C4_AbortsOnFatal ==
    (/\ GenerateRun
     /\ my_models # <<>>
     /\ Fatal(provider[my_models[1]]))
    => /\ Posts = <<Post(my_models[1])>>
       /\ ErrorCount = 1
       /\ \A i \in PositionsOf("st.error") : \A j \in PositionsOf("POST generateContent") : j < i

\* Generate was pressed with two ranked models and the endpoint refusing
\* the key: one request, one error
C4_Witness ==
    /\ GenerateRun
    /\ Len(my_models) = 2
    /\ provider = AllAnswer(GenStatus(403))
    /\ PostCount = 1
    /\ ErrorCount = 1

\* C8: when the ranked list is empty, pressing Generate shows an error and
\* issues no generation request (with no guessed or default model name), and
\* the handler leaves the session, the stored lesson included, as it was.
C8_NoModelsNoRequest ==
    /\ []((GenerateRun /\ my_models = <<>>) =>
            /\ \E i \in 1..Len(events) : events[i] = StError("No models found.")
            /\ PostCount = 0
            /\ CountKind(events, "genai generate_content") = 0)
    /\ [][(pc = "generate" /\ my_models = <<>>) => session' = session]_vars

\* Generate was pressed while a lesson was stored and no model was listed:
\* the error is shown and the lesson is still there
C8_Witness ==
    /\ GenerateRun
    /\ my_models = <<>>
    /\ "lesson_data" \in DOMAIN session
    /\ ErrorCount = 1
    /\ PostCount = 0

\* C10: in every script a run without a credential shows a message and
\* halts: no widget is drawn and no provider, image-download or
\* text-to-speech call is made.
C10_NoKeyHalts ==
    (api_key = None /\ ended \notin {"(no run yet)", "running"}) =>
        /\ ended = "stop"
        /\ ErrorCount = 1
        /\ widgets = {}
        /\ \A i \in 1..Len(events) : events[i].kind \notin RemoteKinds

(***************************************************************************)
(* Properties of error handling in the pages, checked under Spec.          *)
(***************************************************************************)
\* the latest run is over
RunOver == pc = "idle" /\ ended \notin {"(no run yet)", "running"}

\* a chat run (either copy of the chat) whose translation call raised
TranslationFailed ==
    /\ "english_text" \in DOMAIN inputs
    /\ inputs.english_text # ""
    /\ ~inputs.translate_ok

\* a chat run whose transcription or chat call raised
VoiceCallFailed ==
    /\ "fail_at" \in DOMAIN inputs
    /\ inputs.audio
    /\ inputs.fail_at \in {"transcribe", "chat"}

\* a photo run whose generation request did not give a lesson
GenerationFailed ==
    /\ app = "vista_vocale_app"
    /\ trigger = "generate"
    /\ PostCount >= 1
    /\ ~WellFormedSuccess(provider[my_models[1]])

\* a run of the stand-alone image lesson whose generate_content call raised
VistoCallFailed ==
    /\ app = "visto_vocale_app"
    /\ "answer" \in DOMAIN inputs
    /\ inputs.answer = "raise"
    /\ CountKind(events, "genai generate_content") >= 1

ModelCallFailed ==
    TranslationFailed \/ VoiceCallFailed \/ GenerationFailed \/ VistoCallFailed

\* C11: a run in which a generation, transcription, chat or translation
\* call failed shows an error message and runs to completion (it is not
\* ended by an uncaught exception), and the next run may be triggered by any
\* interaction.
C11_FailedCallsCaught ==
    (RunOver /\ ModelCallFailed) =>
        /\ ended = "done"
        /\ ErrorCount >= 1
        /\ ~pending_rerun

(***************************************************************************)
(* Properties of speech synthesis, checked under SpecSynthesize.           *)
(***************************************************************************)
\* inputs on which the text-to-speech library fails
SynthFails(text, lang_code, up) ==
    text = "" \/ lang_code \notin TtsLanguages \/ ~up

\* the language code the item loop of the script passes
CallerLang == IF s_script = "vista_vocale_app" THEN s_lang ELSE "it"

\* C12: get_audio_bytes never raises; on an empty text, an unsupported
\* language code or an unreachable service it returns None; the item loop
\* then shows no audio player and still renders every item to the end.
C12_SynthesizeNeverRaises ==
    sstage = "done" =>
        /\ ~spoken.exc
        /\ SynthFails(s_text, s_lang, s_up) => spoken.val = None
        /\ rendered.ended = "done"
        /\ CountKind(rendered.events, "gTTS") = Len(s_items)
        /\ SynthFails("il gatto", CallerLang, s_up) =>
              CountKind(rendered.events, "st.audio") = 0

\* an empty text with an unknown language code was synthesized to None in
\* vista_vocale_app.py, and two items were rendered without a player
C12_Witness ==
    /\ sstage = "done"
    /\ s_script = "vista_vocale_app"
    /\ s_text = "" /\ s_lang = "xx" /\ s_up
    /\ spoken = Return(None)
    /\ Len(s_items) = 2
    /\ Kinds(rendered.events) = <<"gTTS", "gTTS">>
    /\ rendered.ended = "done"

(***************************************************************************)
(* Properties of the stored lesson, checked under Spec.                    *)
(***************************************************************************)
LessonKeys == {"lesson_data", "current_lang_config"}

\* the two entries of the session that hold the lesson, as far as present
LessonEntries(sess) == [k \in (DOMAIN sess \cap LessonKeys) |-> sess[k]]

\* the Generate handler is about to run / has run with this answer
GenerationSucceeds(prov) ==
    my_models # <<>> /\ WellFormedSuccess(prov[my_models[1]])

\* C13: the session holds 'lesson_data' only together with
\* 'current_lang_config'; the two are written only by the Generate handler,
\* and only together, from one successful answer and the language selected
\* in that run; a generation that fails leaves both as they were.
C13_LessonWithItsLanguage ==
    /\ []("lesson_data" \in DOMAIN session => "current_lang_config" \in DOMAIN session)
    /\ [][ /\ LessonEntries(session') # LessonEntries(session)
              => pc = "generate" /\ GenerationSucceeds(provider')
           /\ (pc = "generate" /\ GenerationSucceeds(provider'))
              => /\ session'["lesson_data"]
                      = ParseCandidates(provider'[my_models[1]].data).val
                 /\ session'["current_lang_config"] = inputs.lang
           /\ (pc = "generate" /\ ~GenerationSucceeds(provider'))
              => LessonEntries(session') = LessonEntries(session) ]_vars

\* lesson A was generated in French; a later Generate in Chinese got an
\* error from the endpoint, and lesson A is still stored with French
C13_Witness ==
    /\ GenerateRun
    /\ inputs.lang = "Chinese"
    /\ PostCount = 1
    /\ ErrorCount = 1
    /\ "lesson_data" \in DOMAIN session
    /\ session["lesson_data"] = LessonA
    /\ session["current_lang_config"] = "French"

(***************************************************************************)
(* Properties of the replay player of the voice chat, checked under Spec.  *)
(***************************************************************************)
\* the session keys of the chat of the served script
ChatKeys == IF app = "parla_app" THEN ParlaChatKeys ELSE VistaChatKeys

\* st.session_state.get(flag, False)
AutoFlag(sess) == DictGet(sess, ChatKeys.flag, FALSE)

\* the run drew the replay player with this autoplay setting
Played(evs, autoplay) == \E i \in 1..Len(evs) : evs[i] = AudioPlayer(autoplay)

\* C14: a successful voice interaction appends the reply, sets the autoplay
\* flag and reruns without drawing the player; the flag is set by nothing
\* else; a chat run that reaches the player while the flag is set draws it
\* with autoplay on and clears the flag; the player is drawn with autoplay
\* on only so; a run that draws it with autoplay off leaves the flag clear.
\* Hence each reply is autoplayed by at most one run.
C14_AutoplayOnce ==
    [][ LET chat_run == "fail_at" \in DOMAIN inputs'
            new_reply == chat_run /\ trigger' = "mic" /\ ended' = "rerun"
        IN  /\ new_reply =>
                  /\ AutoFlag(session')
                  /\ ChatKeys.audio \in DOMAIN session'
                  /\ ChatLength(session', ChatKeys)
                        = (IF ChatKeys.history \in DOMAIN session
                           THEN ChatLength(session, ChatKeys)
                           ELSE Len(InitialHistory)) + 2
                  /\ pending_rerun'
                  /\ ~Played(events', TRUE) /\ ~Played(events', FALSE)
            /\ (AutoFlag(session') /\ ~AutoFlag(session)) => new_reply
            /\ (chat_run /\ ended' = "done" /\ AutoFlag(session)) =>
                  Played(events', TRUE)
            /\ Played(events', TRUE) =>
                  /\ chat_run
                  /\ AutoFlag(session) /\ ~AutoFlag(session')
                  /\ ~Played(events', FALSE)
            /\ (chat_run /\ Played(events', FALSE)) =>
                  ~AutoFlag(session) /\ ~AutoFlag(session') ]_vars

\* parla_app.py after two replies: both were autoplayed once, and this
\* later run drew the player with autoplay off
C14_Witness ==
    /\ app = "parla_app"
    /\ ChatLength(session, ParlaChatKeys) = 6
    /\ "autoplay_trigger" \in DOMAIN session
    /\ session["autoplay_trigger"] = FALSE
    /\ trigger = "load"
    /\ events = <<AudioPlayer(FALSE)>>
    /\ ended = "done"
====
